---- MODULE Spec2Model ----
(***************************************************************************)
(* Model of the training driver pathoMozhi/train/train.py: main() from the *)
(* checkpoint discovery (line 149) to the final save (line 303), as run by *)
(* one replica process.  Python strings are sequences of one-character     *)
(* strings, so that split / replace / endswith / int() are computed the    *)
(* way Python computes them.                                               *)
(***************************************************************************)
EXTENDS Integers, Sequences, FiniteSets, TLC

VARIABLES
    args,                 \* the argparse namespace (lines 45-96)
    dir_exists,           \* os.path.exists(checkpoint_dir)
    dir_listing,          \* the entries of checkpoint_dir, in the order the OS lists them
    disk,                 \* path -> checkpoint record, what torch.load returns
    named_parameters,     \* ddp_model.named_parameters(), in order
    pc,                   \* position of the process in main()
    error,                \* the exception that ended the process, or None
    checkpoint,           \* the loaded record, or None
    msd,                  \* the normalized model_state_dict (line 169)
    model_state,          \* what model.load_state_dict received, or None
    resume_from_epoch,
    params_to_optimize,
    optimizer,
    total_training_steps,
    lr_scheduler,
    epoch,                \* the loop variable of line 283, Unbound before its first assignment
    trace                 \* the calls made to train_one_epoch and save_checkpoint, in order

vars == <<args, dir_exists, dir_listing, disk, named_parameters, pc, error, checkpoint,
          msd, model_state, resume_from_epoch, params_to_optimize, optimizer,
          total_training_steps, lr_scheduler, epoch, trace>>

\* Python's None, and a local variable that has not been assigned yet; a value that may
\* be None is otherwise kept as it is (a path, a record) or as the one-element tuple <<v>>
None == <<>>
Unbound == <<>>
\* an attribute the namespace does not have; args.fsdp is otherwise "True" or "False"
Undefined == "Undefined"

----------------------------------------------------------------------------
(* Python str operations *)

Digits == <<"0","1","2","3","4","5","6","7","8","9">>
UpperAlpha == <<"A","B","C","D","E","F","G","H","I","J","K","L","M","N","O","P","Q","R","S","T","U","V","W","X","Y","Z">>
LowerAlpha == <<"a","b","c","d","e","f","g","h","i","j","k","l","m","n","o","p","q","r","s","t","u","v","w","x","y","z">>

Range(s) == {s[i] : i \in 1..Len(s)}

StartsWith(s, p) == Len(s) >= Len(p) /\ SubSeq(s, 1, Len(p)) = p

\* str.endswith
EndsWith(s, p) == Len(s) >= Len(p) /\ SubSeq(s, Len(s) - Len(p) + 1, Len(s)) = p

\* the operator `in` on two strings
Contains(s, sub) == \E i \in 1..(Len(s) - Len(sub) + 1) : SubSeq(s, i, i + Len(sub) - 1) = sub

LowerChar(c) ==
    IF c \in Range(UpperAlpha)
    THEN LowerAlpha[CHOOSE i \in 1..Len(UpperAlpha) : UpperAlpha[i] = c]
    ELSE c

\* str.lower
Lower(s) == [i \in 1..Len(s) |-> LowerChar(s[i])]

\* str.replace(old, new): every non-overlapping occurrence, left to right
RECURSIVE Replace(_, _, _)
Replace(s, old, new) ==
    IF Len(s) < Len(old) THEN s
    ELSE IF StartsWith(s, old)
         THEN new \o Replace(SubSeq(s, Len(old) + 1, Len(s)), old, new)
         ELSE <<Head(s)>> \o Replace(Tail(s), old, new)

\* str.split(sep) for a one-character separator: the list of segments
RECURSIVE Split(_, _)
Split(s, sep) ==
    IF sep \notin Range(s) THEN <<s>>
    ELSE LET i == CHOOSE j \in 1..Len(s) : s[j] = sep /\ \A k \in 1..(j - 1) : s[k] # sep
         IN  <<SubSeq(s, 1, i - 1)>> \o Split(SubSeq(s, i + 1, Len(s)), sep)

IsDigits(s) == Len(s) > 0 /\ \A i \in 1..Len(s) : s[i] \in Range(Digits)

DigitVal(c) == (CHOOSE i \in 1..Len(Digits) : Digits[i] = c) - 1

\* int(s) for a string of decimal digits
RECURSIVE IntOf(_)
IntOf(s) ==
    IF Len(s) = 0 THEN 0
    ELSE 10 * IntOf(SubSeq(s, 1, Len(s) - 1)) + DigitVal(s[Len(s)])

\* str(n) for n >= 0, as the f-string of the checkpoint file name formats it
RECURSIVE StrOf(_)
StrOf(n) ==
    IF n < 10 THEN <<Digits[n + 1]>>
    ELSE StrOf(n \div 10) \o <<Digits[(n % 10) + 1]>>

\* os.path.join of two components
PathJoin(a, b) ==
    IF StartsWith(b, <<"/">>) THEN b
    ELSE IF Len(a) = 0 \/ EndsWith(a, <<"/">>) THEN a \o b
    ELSE a \o <<"/">> \o b

----------------------------------------------------------------------------
(* Checkpoint discovery, lines 150-161 *)

checkpoint_base_path ==
    <<"/","m","n","t","/","b","u","l","k","-","m","a","r","s","/","v","i","d","h","y","a","/",
      "v","i","s","i","o","n","L","a","n","g","u","a","g","e","/","C","H","E","C","K","P","O","I","N","T">>

CheckpointPrefix == <<"c","h","e","c","k","p","o","i","n","t","_">>
CheckpointSuffix == <<".","p","t">>

checkpoint_dir(a) == PathJoin(checkpoint_base_path, a.run_name)

\* fnmatch of a directory entry against "checkpoint_*.pt"
MatchesPattern(name) ==
    /\ Len(name) >= Len(CheckpointPrefix) + Len(CheckpointSuffix)
    /\ StartsWith(name, CheckpointPrefix)
    /\ EndsWith(name, CheckpointSuffix)

\* glob.glob(os.path.join(checkpoint_dir, "checkpoint_*.pt")): the matching entries,
\* each joined to the directory, in listing order
RECURSIVE GlobFrom(_, _)
GlobFrom(dir, listing) ==
    IF Len(listing) = 0 THEN <<>>
    ELSE (IF MatchesPattern(Head(listing)) THEN <<PathJoin(dir, Head(listing))>> ELSE <<>>)
         \o GlobFrom(dir, Tail(listing))

Last(s) == s[Len(s)]

\* x.split("_")[-1].split(".")[0], the text int() is applied to
EpochText(x) == Split(Last(Split(x, "_")), ".")[1]

\* the key with the embedded number compared as text would be: by its leading digit
CheckpointKey_LeadingDigit(x) == DigitVal(EpochText(x)[1])

\* the sort key of line 159
CheckpointKey(x) == IntOf(EpochText(x))

\* one insertion of a stable ascending sort: x goes after every element whose key is <= its key
InsertByKey(sorted, x) ==
    LET n == Cardinality({i \in 1..Len(sorted) : CheckpointKey(sorted[i]) <= CheckpointKey(x)})
    IN  SubSeq(sorted, 1, n) \o <<x>> \o SubSeq(sorted, n + 1, Len(sorted))

\* sorted(checkpoint_list, key=...)
RECURSIVE SortedByKey(_)
SortedByKey(list) ==
    IF Len(list) = 0 THEN <<>>
    ELSE InsertByKey(SortedByKey(SubSeq(list, 1, Len(list) - 1)), list[Len(list)])

----------------------------------------------------------------------------
(* main(), lines 149-303, one action per step of the process *)

Raise(exc) == pc' = "raised" /\ error' = exc

\* lines 153-161: auto-discovery of the resume checkpoint
Discover ==
    /\ pc = "discover"
    /\ IF dir_exists /\ args.resume_from_checkpoint = None
       THEN LET checkpoint_list == GlobFrom(checkpoint_dir(args), dir_listing)
            IN  IF Len(checkpoint_list) = 0
                THEN args' = args /\ pc' = "load" /\ error' = error
                ELSE IF \E i \in 1..Len(checkpoint_list) : ~IsDigits(EpochText(checkpoint_list[i]))
                THEN args' = args /\ Raise("ValueError")
                ELSE /\ args' = [args EXCEPT !.resume_from_checkpoint = Last(SortedByKey(checkpoint_list))]
                     /\ pc' = "load" /\ error' = error
       ELSE args' = args /\ pc' = "load" /\ error' = error
    /\ UNCHANGED <<dir_exists, dir_listing, disk, named_parameters, checkpoint, msd, model_state,
                   resume_from_epoch, params_to_optimize, optimizer, total_training_steps,
                   lr_scheduler, epoch, trace>>

\* k.replace("module.", "") of line 169
ModulePrefix == <<"m","o","d","u","l","e",".">>
NormalizeKey(k) == Replace(k, ModulePrefix, <<>>)

\* dict assignment d[k] = v on a dict kept as the sequence of its items in insertion order
DictPut(d, k, v) ==
    IF \E i \in 1..Len(d) : d[i].k = k
    THEN [i \in 1..Len(d) |-> IF d[i].k = k THEN [k |-> k, v |-> v] ELSE d[i]]
    ELSE Append(d, [k |-> k, v |-> v])

\* the dict comprehension of line 169
RECURSIVE NormalizeDict(_)
NormalizeDict(items) ==
    IF Len(items) = 0 THEN <<>>
    ELSE LET it == items[Len(items)]
         IN  DictPut(NormalizeDict(SubSeq(items, 1, Len(items) - 1)), NormalizeKey(it.k), it.v)

\* lines 163-173: load of the resume checkpoint.  Line 172 reads args.fsdp, which no
\* add_argument of lines 45-84 defines and line 95 does not assign: the read raises
\* AttributeError (args.fsdp = Undefined).  The namespace is also handed to
\* init_distributed_device (line 96), whose code is not in this file; a namespace that
\* came back from it with the attribute set is the other input, "True" or "False".
Load ==
    /\ pc = "load"
    /\ IF args.resume_from_checkpoint = None
       THEN /\ resume_from_epoch' = 0
            /\ pc' = "optimizer"
            /\ UNCHANGED <<checkpoint, msd, model_state, error>>
       ELSE /\ checkpoint' = disk[args.resume_from_checkpoint]
            /\ msd' = NormalizeDict(checkpoint'.model_state_dict)
            /\ resume_from_epoch' = checkpoint'.epoch + 1
            /\ IF args.fsdp = Undefined
               THEN Raise("AttributeError") /\ model_state' = model_state
               ELSE /\ model_state' = IF args.fsdp = "False" \/ args.rank = 0 THEN msd' ELSE model_state
                    /\ pc' = "optimizer" /\ error' = error
    /\ UNCHANGED <<args, dir_exists, dir_listing, disk, named_parameters, params_to_optimize,
                   optimizer, total_training_steps, lr_scheduler, epoch, trace>>

----------------------------------------------------------------------------
(* Parameter grouping and the optimizer, lines 194-237 *)

AttnGateSuffix == <<"a","t","t","n","_","g","a","t","e">>
FfGateSuffix == <<"f","f","_","g","a","t","e">>
BiasSuffix == <<".","b","i","a","s">>
NormMarker == <<"n","o","r","m">>

\* the default of the parameter gate_lr_mult, line 203 (5.0)
GateLrMult == 5

\* the filter without the exclude_from_optimizer test
KeepForOptimizer_GradOnly(x) == x.requires_grad

\* the filter of lines 195-201
KeepForOptimizer(x) == x.requires_grad /\ ~x.exclude_from_optimizer

\* the classification with the no_decay test placed before the gate test
GroupOf_NoDecayFirst(x) ==
    IF ~x.requires_grad THEN "skip"
    ELSE IF x.ndim = 1 \/ EndsWith(x.name, BiasSuffix) \/ Contains(Lower(x.name), NormMarker)
         THEN "no_decay"
    ELSE IF EndsWith(x.name, AttnGateSuffix) \/ EndsWith(x.name, FfGateSuffix) THEN "gate"
    ELSE "decay"

\* the if / elif / else of lines 219-226 for one (n, p)
GroupOf(x) ==
    IF ~x.requires_grad THEN "skip"
    ELSE IF EndsWith(x.name, AttnGateSuffix) \/ EndsWith(x.name, FfGateSuffix) THEN "gate"
    ELSE IF x.ndim = 1 \/ EndsWith(x.name, BiasSuffix) \/ Contains(Lower(x.name), NormMarker)
         THEN "no_decay"
    ELSE "decay"

\* the parameters appended to one of the lists decay / no_decay / gate, in order
RECURSIVE Collect(_, _)
Collect(named_params, g) ==
    IF Len(named_params) = 0 THEN <<>>
    ELSE Collect(SubSeq(named_params, 1, Len(named_params) - 1), g)
         \o (IF GroupOf(named_params[Len(named_params)]) = g
             THEN <<named_params[Len(named_params)].name>> ELSE <<>>)

\* the weight decay of the third group, line 231 (0.0)
GateWeightDecay(wd) == 0

\* line 227
LrGate(base_lr, gate_lr, gate_lr_mult) == IF gate_lr # None THEN gate_lr[1] ELSE base_lr * gate_lr_mult

get_grouped_params(named_params, base_lr, wd, gate_lr, gate_lr_mult) ==
    << [params |-> Collect(named_params, "decay"), weight_decay |-> wd, lr |-> base_lr],
       [params |-> Collect(named_params, "no_decay"), weight_decay |-> 0, lr |-> base_lr],
       [params |-> Collect(named_params, "gate"), weight_decay |-> GateWeightDecay(wd),
        lr |-> LrGate(base_lr, gate_lr, gate_lr_mult)] >>

\* lines 194-237: filter, group, construct AdamW
BuildOptimizer ==
    /\ pc = "optimizer"
    /\ params_to_optimize' = SelectSeq(named_parameters, KeepForOptimizer)
    /\ optimizer' = [param_groups |-> get_grouped_params(params_to_optimize', args.learning_rate,
                                         args.weight_decay, args.gate_learning_rate, GateLrMult),
                     state |-> "fresh"]
    /\ pc' = "load_optimizer"
    /\ UNCHANGED <<args, dir_exists, dir_listing, disk, named_parameters, error, checkpoint, msd,
                   model_state, resume_from_epoch, total_training_steps, lr_scheduler, epoch, trace>>

\* torch's Optimizer.load_state_dict raises ValueError when the saved state has another
\* number of parameter groups, or a group of another size, before it changes anything
StateDictFits(opt, osd) ==
    /\ Len(osd.param_groups) = Len(opt.param_groups)
    /\ \A i \in 1..Len(osd.param_groups) :
           osd.param_groups[i].n_params = Len(opt.param_groups[i].params)

\* a successful optimizer.load_state_dict: the saved hyperparameters and state replace
\* the current ones, the params of each group stay
LoadedOptimizer(opt, osd) ==
    [param_groups |-> [i \in 1..Len(opt.param_groups) |->
                          [params |-> opt.param_groups[i].params,
                           weight_decay |-> osd.param_groups[i].weight_decay,
                           lr |-> osd.param_groups[i].lr]],
     state |-> osd.state]

\* an except clause that kept the saved state for the groups that exist
AfterMismatch_Partial(opt, osd) == [opt EXCEPT !.state = osd.state]

\* what the except clause of lines 245-248 leaves in the optimizer
AfterMismatch(opt, osd) == opt

\* lines 240-248; optimizer_state_dict = None stands for a record without that key
LoadOptimizer ==
    /\ pc = "load_optimizer"
    /\ IF args.resume_from_checkpoint # None /\ checkpoint.optimizer_state_dict # None
       THEN LET osd == checkpoint.optimizer_state_dict
            IN  IF StateDictFits(optimizer, osd)
                THEN optimizer' = LoadedOptimizer(optimizer, osd)
                ELSE optimizer' = AfterMismatch(optimizer, osd)
       ELSE optimizer' = optimizer
    /\ pc' = "steps"
    /\ UNCHANGED <<args, dir_exists, dir_listing, disk, named_parameters, error, checkpoint, msd,
                   model_state, resume_from_epoch, params_to_optimize, total_training_steps,
                   lr_scheduler, epoch, trace>>

----------------------------------------------------------------------------
(* Schedule, lines 251-278 *)

\* the step count without the division by world_size
TotalTrainingSteps_PerReplica(a) == (a.train_num_samples \div a.batch_size) * a.num_epochs

\* lines 251-253
TotalTrainingSteps(a) == (a.train_num_samples \div (a.batch_size * a.world_size)) * a.num_epochs

ComputeSteps ==
    /\ pc = "steps"
    /\ IF args.batch_size * args.world_size = 0
       THEN Raise("ZeroDivisionError") /\ total_training_steps' = total_training_steps
       ELSE /\ total_training_steps' = TotalTrainingSteps(args)
            /\ pc' = "scheduler" /\ error' = error
    /\ UNCHANGED <<args, dir_exists, dir_listing, disk, named_parameters, checkpoint, msd,
                   model_state, resume_from_epoch, params_to_optimize, optimizer, lr_scheduler,
                   epoch, trace>>

\* lines 259-274: only the linear and cosine schedules take num_training_steps
BuildScheduler ==
    /\ pc = "scheduler"
    /\ lr_scheduler' =
           [kind |-> IF args.lr_scheduler \in {"linear", "cosine"} THEN args.lr_scheduler ELSE "constant",
            num_warmup_steps |-> args.warmup_steps,
            num_training_steps |-> IF args.lr_scheduler \in {"linear", "cosine"}
                                   THEN <<total_training_steps>> ELSE None,
            state |-> "fresh"]
    /\ pc' = "load_scheduler"
    /\ UNCHANGED <<args, dir_exists, dir_listing, disk, named_parameters, error, checkpoint, msd,
                   model_state, resume_from_epoch, params_to_optimize, optimizer,
                   total_training_steps, epoch, trace>>

\* lines 277-278
LoadScheduler ==
    /\ pc = "load_scheduler"
    /\ lr_scheduler' = IF args.resume_from_checkpoint # None
                       THEN [lr_scheduler EXCEPT !.state = checkpoint.lr_scheduler_state_dict]
                       ELSE lr_scheduler
    /\ pc' = "loop"
    /\ UNCHANGED <<args, dir_exists, dir_listing, disk, named_parameters, error, checkpoint, msd,
                   model_state, resume_from_epoch, params_to_optimize, optimizer,
                   total_training_steps, epoch, trace>>

----------------------------------------------------------------------------
(* Epoch loop and final save, lines 283-303 *)

\* a loop that starts at epoch 0 whatever the resume epoch is
NextEpoch_FromZero == IF epoch = Unbound THEN 0 ELSE epoch[1] + 1

\* the next value of range(resume_from_epoch, num_epochs) after the current one
NextEpoch == IF epoch = Unbound THEN resume_from_epoch ELSE epoch[1] + 1

\* line 283: the for statement takes the next value of the range, or ends the loop
LoopHead ==
    /\ pc = "loop"
    /\ IF NextEpoch < args.num_epochs
       THEN epoch' = <<NextEpoch>> /\ pc' = "train"
       ELSE epoch' = epoch /\ pc' = "final_save"
    /\ UNCHANGED <<args, dir_exists, dir_listing, disk, named_parameters, error, checkpoint, msd,
                   model_state, resume_from_epoch, params_to_optimize, optimizer,
                   total_training_steps, lr_scheduler, trace>>

\* lines 284-299: the data of the epoch and train_one_epoch, which returns
TrainPass ==
    /\ pc = "train"
    /\ trace' = Append(trace, <<"train", epoch[1]>>)
    /\ pc' = "save"
    /\ UNCHANGED <<args, dir_exists, dir_listing, disk, named_parameters, error, checkpoint, msd,
                   model_state, resume_from_epoch, params_to_optimize, optimizer,
                   total_training_steps, lr_scheduler, epoch>>

\* lines 284-299: the data of the epoch and train_one_epoch, which raises; nothing catches
TrainPassFails ==
    /\ pc = "train"
    /\ trace' = Append(trace, <<"train_failed", epoch[1]>>)
    /\ Raise("TrainingError")
    /\ UNCHANGED <<args, dir_exists, dir_listing, disk, named_parameters, checkpoint, msd,
                   model_state, resume_from_epoch, params_to_optimize, optimizer,
                   total_training_steps, lr_scheduler, epoch>>

\* line 300
SaveEpoch ==
    /\ pc = "save"
    /\ trace' = Append(trace, <<"save", epoch[1]>>)
    /\ pc' = "loop"
    /\ UNCHANGED <<args, dir_exists, dir_listing, disk, named_parameters, error, checkpoint, msd,
                   model_state, resume_from_epoch, params_to_optimize, optimizer,
                   total_training_steps, lr_scheduler, epoch>>

\* line 303: the argument epoch is read before save_checkpoint is called; the name is
\* unbound when the loop body never ran
FinalSave ==
    /\ pc = "final_save"
    /\ IF epoch = Unbound
       THEN Raise("UnboundLocalError") /\ trace' = trace
       ELSE /\ trace' = Append(trace, <<"save", epoch[1]>>)
            /\ pc' = "done" /\ error' = error
    /\ UNCHANGED <<args, dir_exists, dir_listing, disk, named_parameters, checkpoint, msd,
                   model_state, resume_from_epoch, params_to_optimize, optimizer,
                   total_training_steps, lr_scheduler, epoch>>

----------------------------------------------------------------------------
(* Bounds and input sets *)

MaxEpochs == 3          \* num_epochs and the epoch of a saved record range over 0..MaxEpochs
MaxWorld == 2           \* world_size ranges over 1..MaxWorld
MaxFileEpoch == 10      \* discovery: the files checkpoint_0.pt .. checkpoint_<MaxFileEpoch>.pt
MaxListing == 3         \* discovery: entries in the checkpoint directory
MaxKeys == 2            \* keys of a saved model_state_dict
MaxParams == 2          \* named parameters of the model
MaxSavedGroups == 3     \* parameter groups of a saved optimizer state
MaxSamples == 6         \* |train_num_samples|
MaxBatch == 3           \* batch_size ranges over 0..MaxBatch

\* the sequences of at most n distinct elements of S
DistinctSeqs(S, n) ==
    UNION {{q \in [1..k -> S] : \A i, j \in 1..k : i # j => q[i] # q[j]} : k \in 0..n}

\* run names: "run", and "my_run.v2", which has the characters the sort key splits on
RunNames == {<<"r","u","n">>, <<"m","y","_","r","u","n",".","v","2">>}
DefaultRunName == <<"r","u","n">>

\* an explicit --resume_from_checkpoint, "/x/resume.pt"
ExplicitPath == <<"/","x","/","r","e","s","u","m","e",".","p","t">>

\* a directory entry the pattern does not match, "log.txt"
ForeignFile == <<"l","o","g",".","t","x","t">>

\* the name save_checkpoint gives the file of epoch e: checkpoint_<e>.pt
CheckpointFile(e) == CheckpointPrefix \o StrOf(e) \o CheckpointSuffix

\* a directory entry: the checkpoint file of epoch e, or for e < 0 the foreign file
EntryName(e) == IF e < 0 THEN ForeignFile ELSE CheckpointFile(e)

\* the record save_checkpoint writes for epoch e
CheckpointRecord(e, items, osd) ==
    [epoch |-> e, model_state_dict |-> items, optimizer_state_dict |-> osd,
     lr_scheduler_state_dict |-> <<"saved", e>>]

\* a saved optimizer state of n groups of size params each
SavedOptimizerState(n, size) ==
    [param_groups |-> [i \in 1..n |-> [n_params |-> size, weight_decay |-> 0, lr |-> 1]],
     state |-> "saved"]

SavedOptimizerStates ==
    {None} \cup {SavedOptimizerState(n, size) : n \in 1..MaxSavedGroups, size \in {1, 2}}

\* the items of a saved model_state_dict: "module.w", "module.l.bias"
SavedItems ==
    << [k |-> <<"m","o","d","u","l","e",".","w">>, v |-> 1],
       [k |-> <<"m","o","d","u","l","e",".","l",".","b","i","a","s">>, v |-> 2] >>

\* keys of a saved model_state_dict: "module.w", "w", "module.module.w", "a.module.w",
\* "submodule.w", "modules.w", "module"
KeyPool ==
    { <<"m","o","d","u","l","e",".","w">>,
      <<"w">>,
      <<"m","o","d","u","l","e",".","m","o","d","u","l","e",".","w">>,
      <<"a",".","m","o","d","u","l","e",".","w">>,
      <<"s","u","b","m","o","d","u","l","e",".","w">>,
      <<"m","o","d","u","l","e","s",".","w">>,
      <<"m","o","d","u","l","e">> }

\* the parameters of the model in the runs that do not vary them: "w" (2-d), "l.bias"
\* (1-d), "x.attn_gate" (1-d), and the frozen "emb" (2-d)
ModelParams ==
    << [name |-> <<"w">>, ndim |-> 2, requires_grad |-> TRUE, exclude_from_optimizer |-> FALSE],
       [name |-> <<"l",".","b","i","a","s">>, ndim |-> 1, requires_grad |-> TRUE,
        exclude_from_optimizer |-> FALSE],
       [name |-> <<"x",".","a","t","t","n","_","g","a","t","e">>, ndim |-> 1, requires_grad |-> TRUE,
        exclude_from_optimizer |-> FALSE],
       [name |-> <<"e","m","b">>, ndim |-> 2, requires_grad |-> FALSE,
        exclude_from_optimizer |-> FALSE] >>

\* parameter names: "w", "x.attn_gate", "ff_gate", "l.bias", "LayerNorm.w", "norm.ff_gate",
\* "attn_gate.bias", "ff_gate.w", "bias"
ParamNames ==
    { <<"w">>,
      <<"x",".","a","t","t","n","_","g","a","t","e">>,
      <<"f","f","_","g","a","t","e">>,
      <<"l",".","b","i","a","s">>,
      <<"L","a","y","e","r","N","o","r","m",".","w">>,
      <<"n","o","r","m",".","f","f","_","g","a","t","e">>,
      <<"a","t","t","n","_","g","a","t","e",".","b","i","a","s">>,
      <<"f","f","_","g","a","t","e",".","w">>,
      <<"b","i","a","s">> }

\* every name as a trainable 0-d, 1-d and 2-d parameter, and "w" and "x.attn_gate" also frozen,
\* excluded from the optimizer, or both
ParamPool ==
    {[name |-> n, ndim |-> d, requires_grad |-> TRUE, exclude_from_optimizer |-> FALSE] :
        n \in ParamNames, d \in {0, 1, 2}}
    \cup {[name |-> n, ndim |-> 2, requires_grad |-> g, exclude_from_optimizer |-> x] :
        n \in {<<"w">>, <<"x",".","a","t","t","n","_","g","a","t","e">>},
        g \in BOOLEAN, x \in BOOLEAN}

\* argparse defaults scaled to small numbers; rates are in units of 1e-5
DefaultArgs ==
    [resume_from_checkpoint |-> None, run_name |-> DefaultRunName, rank |-> 0, local_rank |-> 0,
     world_size |-> 1, num_epochs |-> 1, fsdp |-> Undefined, train_num_samples |-> 4,
     batch_size |-> 2, learning_rate |-> 1, weight_decay |-> 1, gate_learning_rate |-> None,
     lr_scheduler |-> "constant", warmup_steps |-> 1]

\* the files on disk: one record per (path, epoch) pair
DiskOf(pairs, items, osd) ==
    [p \in {x[1] : x \in pairs} |->
        CheckpointRecord((CHOOSE x \in pairs : x[1] = p)[2], items, osd)]

\* the process at position `at` of main() with nothing loaded or built yet
StartState(a, de, dl, dk, np, at) ==
    /\ args = a /\ dir_exists = de /\ dir_listing = dl /\ disk = dk /\ named_parameters = np
    /\ pc = at /\ error = None /\ checkpoint = None /\ msd = None /\ model_state = None
    /\ resume_from_epoch = None /\ params_to_optimize = None /\ optimizer = None
    /\ total_training_steps = None /\ lr_scheduler = None /\ epoch = Unbound /\ trace = <<>>

----------------------------------------------------------------------------
(* The run: discovery, load, optimizer, schedule, epoch loop, final save *)

Init ==
    \E n \in 0..MaxEpochs, f \in {Undefined, "True", "False"}, w \in 1..MaxWorld,
       explicit \in {None} \cup {<<e>> : e \in 0..MaxEpochs},
       found \in {<<-1>>} \cup {<<>>} \cup {<<e>> : e \in 0..MaxEpochs},
       de \in BOOLEAN, osd \in SavedOptimizerStates :
      \E k \in 0..(w - 1) :
        LET a == [DefaultArgs EXCEPT !.num_epochs = n, !.fsdp = f, !.world_size = w, !.rank = k,
                      !.local_rank = k,
                      !.resume_from_checkpoint = IF explicit = None THEN None ELSE ExplicitPath]
            dl == [i \in 1..Len(found) |-> EntryName(found[i])]
            pairs == {<<PathJoin(checkpoint_dir(a), EntryName(found[i])), found[i]>> :
                          i \in {j \in 1..Len(found) : found[j] >= 0}}
                     \cup (IF explicit = None THEN {} ELSE {<<ExplicitPath, explicit[1]>>})
        IN  /\ de \/ found = <<>>
            /\ StartState(a, de, dl, DiskOf(pairs, SavedItems, osd), ModelParams, "discover")

Next ==
    \/ Discover
    \/ Load
    \/ BuildOptimizer
    \/ LoadOptimizer
    \/ ComputeSteps
    \/ BuildScheduler
    \/ LoadScheduler
    \/ LoopHead
    \/ TrainPass
    \/ TrainPassFails
    \/ SaveEpoch
    \/ FinalSave

Spec == Init /\ [][Next]_vars

----------------------------------------------------------------------------
(* Discovery over directories of several files, in every listing order *)

InitDiscovery ==
    \E rn \in RunNames, explicit \in BOOLEAN, de \in BOOLEAN,
       found \in DistinctSeqs((-1)..MaxFileEpoch, MaxListing) :
        LET a == [DefaultArgs EXCEPT !.run_name = rn, !.fsdp = "False",
                      !.resume_from_checkpoint = IF explicit THEN ExplicitPath ELSE None]
            dl == [i \in 1..Len(found) |-> EntryName(found[i])]
            pairs == {<<PathJoin(checkpoint_dir(a), EntryName(found[i])), found[i]>> :
                          i \in {j \in 1..Len(found) : found[j] >= 0}}
                     \cup (IF explicit THEN {<<ExplicitPath, 0>>} ELSE {})
        IN  /\ de \/ found = <<>>
            /\ StartState(a, de, dl, DiskOf(pairs, SavedItems, None), ModelParams, "discover")

NextDiscovery ==
    \/ Discover
    \/ Load

SpecDiscovery == InitDiscovery /\ [][NextDiscovery]_vars

----------------------------------------------------------------------------
(* Load of checkpoints with every model_state_dict over KeyPool *)

InitLoad ==
    \E keys \in DistinctSeqs(KeyPool, MaxKeys), f \in {Undefined, "True", "False"},
       w \in 1..MaxWorld, e \in 0..MaxEpochs :
      \E k \in 0..(w - 1) :
        LET a == [DefaultArgs EXCEPT !.resume_from_checkpoint = ExplicitPath, !.fsdp = f,
                      !.world_size = w, !.rank = k, !.local_rank = k]
            items == [i \in 1..Len(keys) |-> [k |-> keys[i], v |-> i]]
        IN  StartState(a, FALSE, <<>>, DiskOf({<<ExplicitPath, e>>}, items, None),
                       ModelParams, "load")

NextLoad == Load

SpecLoad == InitLoad /\ [][NextLoad]_vars

----------------------------------------------------------------------------
(* Parameter grouping over every list of parameters of ParamPool *)

InitGroup ==
    \E np \in DistinctSeqs(ParamPool, MaxParams), lr \in {1, 2}, wd \in {0, 3},
       g \in {None, <<7>>} :
        /\ \A i, j \in 1..Len(np) : i # j => np[i].name # np[j].name
        /\ StartState([DefaultArgs EXCEPT !.learning_rate = lr, !.weight_decay = wd,
                           !.gate_learning_rate = g],
                      FALSE, <<>>, <<>>, np, "load")

NextGroup ==
    \/ Load
    \/ BuildOptimizer

SpecGroup == InitGroup /\ [][NextGroup]_vars

----------------------------------------------------------------------------
(* The step count over every configuration, on every replica *)

InitSteps ==
    \E n \in (-MaxSamples)..MaxSamples, b \in 0..MaxBatch, w \in 1..MaxWorld,
       ne \in 0..MaxEpochs, explicit \in {None, <<0>>, <<1>>},
       sched \in {"constant", "linear", "cosine"} :
      \E k \in 0..(w - 1) :
        \E lk \in 0..k :
          LET a == [DefaultArgs EXCEPT !.train_num_samples = n, !.batch_size = b,
                        !.world_size = w, !.rank = k, !.local_rank = lk, !.num_epochs = ne,
                        !.lr_scheduler = sched, !.fsdp = "False",
                        !.resume_from_checkpoint = IF explicit = None THEN None ELSE ExplicitPath]
              pairs == IF explicit = None THEN {} ELSE {<<ExplicitPath, explicit[1]>>}
          IN  StartState(a, FALSE, <<>>, DiskOf(pairs, SavedItems, None), ModelParams, "load")

NextSteps ==
    \/ Load
    \/ BuildOptimizer
    \/ LoadOptimizer
    \/ ComputeSteps
    \/ BuildScheduler

SpecSteps == InitSteps /\ [][NextSteps]_vars

----------------------------------------------------------------------------
(* Claims *)

\* positions of main() from the for statement on, and the failures raised there
InEpochDriver ==
    \/ pc \in {"loop", "train", "save", "final_save", "done"}
    \/ pc = "raised" /\ error \in {"TrainingError", "UnboundLocalError"}

\* C1: a run that starts with a resume checkpoint (given or discovered) whose record has
\* epoch e gets through the Load step without raising, with resume_from_epoch = e + 1, and
\* the first epoch the Epoch Driver executes is e + 1.
C1_ResumeRoundTrip ==
    (args.resume_from_checkpoint # None /\ pc \notin {"discover", "load"}) =>
        /\ error # "AttributeError"
        /\ resume_from_epoch = disk[args.resume_from_checkpoint].epoch + 1
        /\ Len(trace) > 0 => trace[1][2] = disk[args.resume_from_checkpoint].epoch + 1

\* C4: whatever the resume epoch and num_epochs are, also when the loop runs zero times,
\* the end of the epoch loop is followed by one more Save and the job ends normally:
\* nothing is raised after the loop, and a job that is done has Save as its last call.
C4_TerminalSave ==
    /\ error # "UnboundLocalError"
    /\ pc = "done" => (Len(trace) > 0 /\ Last(trace)[1] = "save")

\* a run whose checkpoint holds an optimizer state with another number of parameter groups
\* than the optimizer this run built
MismatchedRun ==
    /\ checkpoint # None
    /\ optimizer # None
    /\ checkpoint.optimizer_state_dict # None
    /\ Len(checkpoint.optimizer_state_dict.param_groups) # Len(optimizer.param_groups)

\* C5: when the saved optimizer state has another number of parameter groups than the
\* optimizer built in this run, the load of the optimizer state does not raise, the
\* optimizer stays exactly as constructed (fresh state, the hyperparameters of this
\* run), and the run goes on to the schedule and the epoch loop.
C5_MismatchNonFatal ==
    (MismatchedRun /\ pc # "load_optimizer") =>
        /\ optimizer = [param_groups |-> get_grouped_params(params_to_optimize, args.learning_rate,
                                             args.weight_decay, args.gate_learning_rate, GateLrMult),
                        state |-> "fresh"]
        /\ pc \in {"steps", "scheduler", "load_scheduler"} \/ InEpochDriver
        /\ pc \in {"load_scheduler", "loop", "train", "save", "final_save", "done"}
              => lr_scheduler # None

C5_Witness ==
    /\ MismatchedRun
    /\ pc = "save"
    /\ optimizer.state = "fresh"
    /\ Len(checkpoint.optimizer_state_dict.param_groups) = 2
    /\ Len(optimizer.param_groups) = 3

\* the i-th call of a run in which no pass fails: train r, save r, train r+1, save r+1, ...
ExpectedCall(i) ==
    IF i % 2 = 1 THEN <<"train", resume_from_epoch + (i - 1) \div 2>>
    ELSE <<"save", resume_from_epoch + (i \div 2) - 1>>

\* the number of epochs of range(resume_from_epoch, num_epochs)
EpochCount == IF args.num_epochs > resume_from_epoch THEN args.num_epochs - resume_from_epoch ELSE 0

\* C6: the passes run are those of the epochs resume_epoch, resume_epoch + 1, ..,
\* num_epochs - 1, in increasing order and once each; the pass of e is followed by the
\* Save of e before the pass of e + 1; a failed pass is the last call of the run, so that
\* no Save of that epoch and no later pass or Save follows; a job that is done has run
\* them all.
C6_EpochOrder ==
    InEpochDriver =>
        /\ \A i \in 1..Len(trace) :
              \/ i <= 2 * EpochCount /\ trace[i] = ExpectedCall(i)
              \/ /\ i <= 2 * EpochCount /\ i % 2 = 1 /\ i = Len(trace)
                 /\ trace[i] = <<"train_failed", ExpectedCall(i)[2]>>
                 /\ pc = "raised"
              \/ /\ i = 2 * EpochCount + 1 /\ i > 1
                 /\ trace[i] = <<"save", args.num_epochs - 1>>
                 /\ pc = "done"
        /\ pc = "done" => Len(trace) = 2 * EpochCount + 1
        /\ (pc = "raised" /\ error = "TrainingError") => Last(trace)[1] = "train_failed"
        /\ pc = "train" => (Len(trace) % 2 = 0 /\ epoch = <<ExpectedCall(Len(trace) + 1)[2]>>)
        /\ pc = "save" => (Len(trace) % 2 = 1 /\ epoch = <<Last(trace)[2]>> /\ Last(trace)[1] = "train")

\* a resumed run that ended after its two epochs
C6_Witness ==
    /\ pc = "done" /\ resume_from_epoch = 1 /\ args.num_epochs = 3
    /\ trace = << <<"train", 1>>, <<"save", 1>>, <<"train", 2>>, <<"save", 2>>, <<"save", 2>> >>

\* a resumed run whose second pass failed
C6_FailedPass ==
    /\ pc = "raised" /\ resume_from_epoch = 1 /\ args.num_epochs = 3
    /\ trace = << <<"train", 1>>, <<"save", 1>>, <<"train_failed", 2>> >>


\* the epoch numbers n with a file checkpoint_<n>.pt among the directory entries
ListedEpochs == {n \in 0..MaxFileEpoch : \E i \in 1..Len(dir_listing) : dir_listing[i] = CheckpointFile(n)}

MaxOf(S) == CHOOSE n \in S : \A m \in S : m <= n

\* C2: with no explicit resume path and an existing checkpoint directory, discovery
\* selects the file checkpoint_<n>.pt of the numerically largest n among the entries,
\* whatever the listing order; with no matching entry no resume path is set and the run
\* starts at epoch 0; an explicit resume path is never replaced.
C2_Discovery ==
    [][ /\ pc = "discover" =>
            /\ args.resume_from_checkpoint # None =>
                   args'.resume_from_checkpoint = args.resume_from_checkpoint
            /\ (args.resume_from_checkpoint = None /\ dir_exists) =>
                   IF ListedEpochs = {}
                   THEN args'.resume_from_checkpoint = None
                   ELSE args'.resume_from_checkpoint =
                            checkpoint_base_path \o <<"/">> \o args.run_name \o <<"/">>
                                \o CheckpointFile(MaxOf(ListedEpochs))
            /\ pc' = "load"
        /\ (pc = "load" /\ args.resume_from_checkpoint = None) =>
               (resume_from_epoch' = 0 /\ pc' = "optimizer")
      ]_vars

\* checkpoint_10.pt selected although checkpoint_9.pt is listed after it, in a run
\* directory whose name has "_" and "."
C2_Witness ==
    /\ pc = "load"
    /\ 9 \in ListedEpochs /\ 10 \in ListedEpochs
    /\ dir_listing[1] = CheckpointFile(10)
    /\ ForeignFile \in Range(dir_listing)
    /\ args.run_name # DefaultRunName
    /\ EndsWith(args.resume_from_checkpoint, <<"/">> \o CheckpointFile(10))

\* s ends with suf, character by character
HasSuffix(s, suf) ==
    /\ Len(s) >= Len(suf)
    /\ \A i \in 1..Len(suf) : s[Len(s) - Len(suf) + i] = suf[i]

\* the number of times name n occurs in the three groups of the optimizer
Occurrences(n) ==
    Cardinality({<<g, i>> \in (1..3) \X (1..Len(named_parameters)) :
                    i <= Len(optimizer.param_groups[g].params)
                    /\ optimizer.param_groups[g].params[i] = n})

\* C3: every parameter with gradients enabled and not flagged exclude_from_optimizer is in
\* exactly one of the groups decay, no_decay, gate; every other parameter is in none.
C3_Partition ==
    pc = "load_optimizer" =>
        /\ Len(optimizer.param_groups) = 3
        /\ \A i \in 1..Len(named_parameters) :
              LET x == named_parameters[i]
              IN  Occurrences(x.name) =
                      IF x.requires_grad /\ ~x.exclude_from_optimizer THEN 1 ELSE 0
        /\ \A g \in 1..3 : Len(optimizer.param_groups[g].params) <= Len(named_parameters)

\* a trainable parameter grouped, listed after one that is excluded from the optimizer
C3_Witness ==
    /\ pc = "load_optimizer"
    /\ Len(named_parameters) = 2
    /\ named_parameters[1].requires_grad /\ named_parameters[1].exclude_from_optimizer
    /\ named_parameters[2].requires_grad /\ ~named_parameters[2].exclude_from_optimizer
    /\ Occurrences(named_parameters[2].name) = 1
    /\ Occurrences(named_parameters[1].name) = 0

IsGateName(n) == HasSuffix(n, <<"a","t","t","n","_","g","a","t","e">>) \/ HasSuffix(n, <<"f","f","_","g","a","t","e">>)

HasNormMarker(n) ==
    \E i \in 1..Len(n) :
        /\ i + 3 <= Len(n)
        /\ n[i] \in {"n", "N"} /\ n[i + 1] \in {"o", "O"} /\ n[i + 2] \in {"r", "R"}
        /\ n[i + 3] \in {"m", "M"}

\* C7: a trainable parameter is in group gate when its name ends with attn_gate or ff_gate,
\* whatever its dimensions, bias suffix or norm marker; otherwise in group no_decay
\* (weight decay 0) when it is one-dimensional, or its name ends with ".bias", or its name
\* contains "norm" in any case; otherwise in group decay (weight decay = the configured one).
C7_Precedence ==
    pc = "load_optimizer" =>
        /\ optimizer.param_groups[1].weight_decay = args.weight_decay
        /\ optimizer.param_groups[2].weight_decay = 0
        /\ \A i \in 1..Len(named_parameters) :
              LET x == named_parameters[i]
                  in(g) == x.name \in Range(optimizer.param_groups[g].params)
              IN  (x.requires_grad /\ ~x.exclude_from_optimizer) =>
                      IF IsGateName(x.name) THEN in(3)
                      ELSE IF x.ndim = 1 \/ HasSuffix(x.name, <<".","b","i","a","s">>)
                              \/ HasNormMarker(x.name)
                           THEN in(2)
                      ELSE in(1)

\* the 1-d "norm.ff_gate" in group gate, next to the 2-d "LayerNorm.w" in group no_decay
C7_Witness ==
    /\ pc = "load_optimizer"
    /\ args.weight_decay > 0
    /\ optimizer.param_groups[3].params = << <<"n","o","r","m",".","f","f","_","g","a","t","e">> >>
    /\ optimizer.param_groups[2].params = << <<"L","a","y","e","r","N","o","r","m",".","w">> >>
    /\ \E i \in 1..Len(named_parameters) :
           named_parameters[i].ndim = 1 /\ IsGateName(named_parameters[i].name)
    /\ \E i \in 1..Len(named_parameters) :
           named_parameters[i].ndim = 2 /\ ~IsGateName(named_parameters[i].name)

\* C10: the third group (names ending attn_gate / ff_gate) is built with the configured
\* weight decay wd, as the docstring of get_grouped_params says, and with the learning
\* rate gate_lr when given and base_lr * 5 otherwise.
C10_GateGroupDecays ==
    pc = "load_optimizer" =>
        /\ optimizer.param_groups[3].weight_decay = args.weight_decay
        /\ optimizer.param_groups[3].lr =
               IF args.gate_learning_rate = None THEN args.learning_rate * 5
               ELSE args.gate_learning_rate[1]

\* C8: with positive batch_size and world_size, total_training_steps is
\* floor(train_num_samples / (batch_size * world_size)) * num_epochs, a value of these four
\* fields alone: the same on every rank, local rank and resume epoch.
C8_TotalSteps ==
    (pc \in {"scheduler", "load_scheduler"} /\ args.batch_size > 0 /\ args.world_size > 0) =>
        \E q \in (-(MaxSamples + 1))..(MaxSamples + 1) :
            /\ q * (args.batch_size * args.world_size) <= args.train_num_samples
            /\ args.train_num_samples < (q + 1) * (args.batch_size * args.world_size)
            /\ total_training_steps = q * args.num_epochs

\* replica 1 of 2, resumed at epoch 2, 5 samples in global batches of 4: one step per epoch
C8_Witness ==
    /\ pc = "scheduler"
    /\ args.rank = 1 /\ args.world_size = 2 /\ args.batch_size = 2
    /\ args.train_num_samples = 5 /\ args.num_epochs = 3
    /\ resume_from_epoch = 2
    /\ total_training_steps = 3

\* the key with its leading "module." removed, if it has one
StripLeadingPrefix(key) ==
    IF Len(key) >= 7 /\ SubSeq(key, 1, 7) = <<"m","o","d","u","l","e",".">>
    THEN SubSeq(key, 8, Len(key))
    ELSE key

\* C9: Load maps every key of the checkpoint's model_state_dict to the same key without
\* its leading "module."; a key without that prefix stays as it is, and no other part of a
\* key changes.
C9_OnlyLeadingPrefix ==
    (pc \in {"optimizer", "raised"} /\ checkpoint # None) =>
        {msd[i].k : i \in 1..Len(msd)} =
            {StripLeadingPrefix(checkpoint.model_state_dict[i].k) :
                 i \in 1..Len(checkpoint.model_state_dict)}

====
